---- MODULE Spec2Model ----
(***************************************************************************)
(* Model of kkpyui's task lifecycle: FormController (submit / cancel /     *)
(* quit / reset), the worker thread running run_task, the module-level     *)
(* stop event and progress queue (Globals), and the UI-side pollers        *)
(* WaitBar.poll and ProgressBar.poll.                                      *)
(*                                                                         *)
(* Spec is the task lifecycle; LiveSpec the cancellation handshake under   *)
(* fairness; BarSpec the progress protocol on its own; ResetSpec and       *)
(* PresetSpec a form with one entry of every Entry class, reset while a    *)
(* task runs, saved to a preset and loaded from one; StuckSpec a task      *)
(* body that never reads the stop flag; TwoSpec two controllers of one     *)
(* process; TypeSpec the validator of the numeric entries.                 *)
(*                                                                         *)
(* The UI thread runs one handler at a time (tkinter's event loop), so a   *)
(* handler is one atomic action.  The worker thread runs concurrently: a   *)
(* worker action is one statement of the task body that touches shared     *)
(* state.                                                                  *)
(***************************************************************************)
EXTENDS Integers, Sequences, FiniteSets, TLC

\* ---------------------------------------------------------------- bounds
\* number of worker threads a controller starts (honoured submits)
MaxSubmits == 2
\* length of the demo task's loop, standing for range(101) in demo/form.py
NumSteps == 2
\* number of wait_for_task timer chains that on_cancel starts
MaxCancels == 1
\* number of set_progress calls a client makes on its own
MaxPosts == 3
\* number of entries that are off their defaults, in the form, the model or
\* the preset file, at a time
MaxEdited == 1
\* number of keys taken out of a preset file by hand
MaxMissing == 1
\* length of the text a preset may load into a FolderEntry
MaxTextLen == 6
\* number of characters of a text typed into a Spinbox
MaxTyped == 3

Threads == 1..MaxSubmits

\* ------------------------------------------------------- text and fields
NL == "\n"

\* str.splitlines(): the lines of a text, a trailing line break adds no line
RECURSIVE SplitFrom(_, _, _)
SplitFrom(txt, i, cur) ==
    IF i > Len(txt) THEN (IF cur = << >> THEN << >> ELSE << cur >>)
    ELSE IF txt[i] = NL THEN << cur >> \o SplitFrom(txt, i + 1, << >>)
    ELSE SplitFrom(txt, i + 1, Append(cur, txt[i]))

SplitLines(txt) == SplitFrom(txt, 1, << >>)

\* '\n'.join(lines)
RECURSIVE JoinLines(_)
JoinLines(lines) ==
    IF lines = << >> THEN << >>
    ELSE IF Len(lines) = 1 THEN lines[1]
    ELSE lines[1] \o << NL >> \o JoinLines(Tail(lines))

\* the entries of the form demo that the task body touches: a TextEntry
\* and the FileEntry that receives the exported path
Keys == {"name", "export"}

\* a form with an entry of every Entry class, in the order they are created;
\* the keys and defaults are the demo's, "files" and "folders" are a
\* FileEntry and a FolderEntry that presets keep
EntryOrder ==
    << "name", "age", "height", "gender", "is_protagonist", "occupation",
       "files", "folders", "export" >>

EntryType ==
    [name |-> "TextEntry", age |-> "IntEntry", height |-> "FloatEntry",
     gender |-> "SingleOptionEntry", is_protagonist |-> "BoolEntry",
     occupation |-> "MultiOptionEntry", files |-> "FileEntry",
     folders |-> "FolderEntry", export |-> "FileEntry"]

FormKeys == DOMAIN EntryType

\* Entry.isPresetable: True by default, False for the demo's export entry
Presetable == FormKeys \ {"export"}

\* the options of the MultiOptionEntry, in menu order
Options == << "Lead", "Wizard" >>

OptionSet == {Options[i] : i \in 1..Len(Options)}

\* the options of the SingleOptionEntry, in list order
Choices == << "Male", "Female" >>

\* SingleOptionEntry.get_selection_index: options.index(value), -1 when
\* the value is not an option
SelectionIndex(value) ==
    IF \E i \in 1..Len(Choices) : Choices[i] = value
    THEN (CHOOSE i \in 1..Len(Choices) : Choices[i] = value) - 1
    ELSE -1

\* Entry.default of each entry; a height is in hundredths (1.68 is 168)
Default ==
    [name |-> << "a" >>, age |-> 15, height |-> 168, gender |-> "Female",
     is_protagonist |-> TRUE, occupation |-> << "Wizard" >>,
     files |-> << "f", "g" >>, folders |-> << >>, export |-> << >>]

\* the path the demo task exports to
Exported == << "f" >>

\* texts the user types into an entry: the name is cleared or typed back; the
\* export path is written by the task body only
EditTexts(k) == IF k = "name" THEN {<< >>, << "a" >>} ELSE {}

\* what the user can put into each entry of the form
EditValues(k) ==
    CASE k = "name" -> EditTexts(k)
      [] k = "age" -> {15, 16}
      [] k = "height" -> {168, 170}
      [] k = "gender" -> {"Female", "Male"}
      [] k = "is_protagonist" -> BOOLEAN
      [] k = "occupation" -> [OptionSet -> BOOLEAN]
      [] k = "files" -> {<< >>, << "f", "g" >>, << "f", NL, "g" >>}
      [] k = "folders" -> {<< >>, << "d" >>}
      [] k = "export" -> {<< >>, Exported}

\* MultiOptionEntry.get_data: the selected options, in menu order
Selected(data) == SelectSeq(Options, LAMBDA o : data[o])

HasChar(txt, c) == \E i \in 1..Len(txt) : txt[i] = c

RECURSIVE Escaped(_, _)
Escaped(txt, q) ==
    IF txt = << >> THEN << >>
    ELSE (IF Head(txt) \in {q, "\\"} THEN << "\\", Head(txt) >>
          ELSE << Head(txt) >>) \o Escaped(Tail(txt), q)

\* repr() of a str: the quote is chosen by the quotes the text holds
PyRepr(txt) ==
    LET q == IF HasChar(txt, "'") /\ ~HasChar(txt, "\"") THEN "\"" ELSE "'"
    IN << q >> \o Escaped(txt, q) \o << q >>

\* ', '.join(repr(x) for x in items)
RECURSIVE ReprItems(_)
ReprItems(items) ==
    IF Len(items) = 1 THEN PyRepr(items[1])
    ELSE PyRepr(items[1]) \o << ",", " " >> \o ReprItems(Tail(items))

\* tk.StringVar.set(list) then .get(): an empty list reads back as '', any
\* other list as str() of the tuple Tcl hands back
StringVarOfList(items) ==
    IF items = << >> THEN << >>
    ELSE IF Len(items) = 1 THEN << "(" >> \o PyRepr(items[1]) \o << ",", ")" >>
    ELSE << "(" >> \o ReprItems(items) \o << ")" >>

\* the data an entry is constructed with: _init_data(var_cls) with
\* value=self.default; MultiOptionEntry: opt in default for every option
InitData(k) ==
    IF EntryType[k] = "MultiOptionEntry"
    THEN [o \in OptionSet |-> \E i \in 1..Len(Default[k]) : Default[k][i] = o]
    ELSE Default[k]

\* SingleOptionEntry.__init__: self.index = IntVar(value=get_selection_index())
\* for every SingleOptionEntry among the entries keys
InitIndex(keys) ==
    [k \in {e \in keys : EntryType[e] = "SingleOptionEntry"} |->
        SelectionIndex(InitData(k))]

\* get_data of each Entry class
GetData(k, data) ==
    IF EntryType[k] \in {"FileEntry", "FolderEntry"} THEN SplitLines(data)
    ELSE IF EntryType[k] = "MultiOptionEntry" THEN Selected(data)
    ELSE data

\* set_data of each Entry class: the widget data after set_data(value), for
\* a value of the kind get_data returns; FolderEntry has no set_data of its
\* own, so Entry.set_data hands the list to the StringVar
SetData(k, value) ==
    IF EntryType[k] = "FileEntry" THEN JoinLines(value)
    ELSE IF EntryType[k] = "FolderEntry" THEN StringVarOfList(value)
    ELSE IF EntryType[k] = "MultiOptionEntry"
    THEN [o \in OptionSet |-> \E i \in 1..Len(value) : value[i] = o]
    ELSE value

\* a FileEntry.reset that joins the default text itself, not a list of it
ResetData_JoinsText(k) ==
    IF EntryType[k] = "FileEntry"
    THEN JoinLines([i \in 1..Len(Default[k]) |-> << Default[k][i] >>])
    ELSE IF EntryType[k] = "FolderEntry" THEN Default[k]
    ELSE SetData(k, Default[k])

\* Entry.reset / FileEntry.reset: the widget data after reset(); the
\* default of a FileEntry or FolderEntry is a text
ResetData(k) ==
    IF EntryType[k] = "FileEntry" THEN SetData(k, << Default[k] >>)
    ELSE IF EntryType[k] = "FolderEntry" THEN Default[k]
    ELSE SetData(k, Default[k])

\* FormController.update_model: the model sampled from all entries
SampleModel(flds) == [k \in DOMAIN flds |-> GetData(k, flds[k])]

\* FormController(form): model=None
NoModel == << >>

\* no preset file written yet
NoPreset == << >>

\* a handler that takes no mapping
NoArg == << >>

\* ------------------------------------------------------ progress protocol
\* FormController.start_progress / stop_progress / the demo's processing
StartMsg == [cmd |-> "/start", value |-> 0, text |-> "Processing ..."]
StopMsg == [cmd |-> "/stop", value |-> 100, text |-> "Stopped"]
ProcessingMsg(p) == [cmd |-> "/processing", value |-> p, text |-> "Processing ..."]

\* stages of the protocol (WaitBar docstring)
KnownStages == {"/start", "/stop", "/processing"}

\* what a client-written task body may pass to set_progress
CustomMsgs ==
    {StartMsg, StopMsg, [cmd |-> "/bogus", value |-> 0, text |-> "?"]}

\* the task bodies: demo/form.py Controller.run_task, the base
\* FormController.run_task, and a client-written body that posts one
\* message of its choice and returns
TaskKinds == {"form", "base", "custom"}

BarKinds == {"WaitBar", "ProgressBar"}

VARIABLES
    taskKind,    \* which run_task the controller has
    barKind,     \* which indicator polls the queue
    loopState,   \* "constructed", "loop" (mainloop running), "quit"
    fields,      \* entry.data of every entry
    model,       \* FormController.model
    taskThread,  \* FormController.taskThread: 0 is None, else a thread id
    wpc,         \* position of every worker thread in its task body
    wp,          \* loop variable p of the demo body
    stopEvent,   \* Globals.taskStopEvent
    queue,       \* Globals.progressQueue
    waitTimers,  \* pending form.after(wait_ms, wait_for_task) callbacks
    pollState,   \* "scheduled" (after(wait_ms, poll) pending), "returned", "raised"
    bar,         \* the indicator: animation running, progress, stage label
    posted,      \* history: every message put into the queue, in order
    consumed,    \* history: every message the poller took, in order
    barLog,      \* history: the indicator after every update the poller made
    op,          \* history: the handler or thread that took the last step
    acted,       \* history: that handler passed its guard (did not early-out)
    ret,         \* history: what that handler returned or raised
    arg,         \* history: the mapping that handler was given, if any
    prompted,    \* history: that handler showed the confirmation prompt
    presetFile,  \* the preset file save_preset writes: a flat mapping
    index,       \* SingleOptionEntry.index of every SingleOptionEntry
    peer,        \* a second FormController of the process and its worker
    stopReq      \* history: cancel or quit set the stop event since the last submit

vars == << taskKind, barKind, loopState, fields, model, taskThread, wpc, wp,
           stopEvent, queue, waitTimers, pollState, bar, posted, consumed,
           barLog, op, acted, ret, arg, prompted, presetFile, index, peer,
           stopReq >>

config == << taskKind, barKind >>
worker == << wpc, wp >>
progress == << queue, posted >>
indicator == << pollState, bar, consumed, barLog >>

\* threading.Thread.is_alive()
Alive(t) == wpc[t] \notin {"unborn", "dead"}

\* self.taskThread and self.taskThread.is_alive()
TaskAlive == taskThread # 0 /\ Alive(taskThread)

AliveThreads == {t \in Threads : Alive(t)}

Started == {t \in Threads : wpc[t] # "unborn"}

\* the controller, the globals and the indicator after construction
InitTask ==
    /\ loopState = "constructed"
    /\ model = NoModel
    /\ taskThread = 0
    /\ wpc = [t \in Threads |-> "unborn"]
    /\ wp = [t \in Threads |-> 0]
    /\ stopEvent = FALSE
    /\ queue = << >>
    /\ waitTimers = 0
    /\ pollState = "scheduled"
    /\ bar = [running |-> FALSE, progress |-> 0, stage |-> ""]
    /\ posted = << >>
    /\ consumed = << >>
    /\ barLog = << >>
    /\ op = "init"
    /\ acted = FALSE
    /\ ret = "None"
    /\ arg = NoArg
    /\ prompted = FALSE
    /\ presetFile = NoPreset
    /\ stopReq = FALSE
    /\ peer = [pc |-> "unborn", timers |-> 0, stopReq |-> FALSE, sawStop |-> FALSE]

Init ==
    /\ taskKind \in TaskKinds
    /\ barKind \in BarKinds
    /\ fields = [k \in Keys |-> InitData(k)]
    /\ index = InitIndex(Keys)
    /\ InitTask

\* Root.mainloop: samples the model, then runs the event loop
MainLoop ==
    /\ loopState = "constructed"
    /\ loopState' = "loop"
    /\ model' = SampleModel(fields)
    /\ op' = "mainloop" /\ acted' = TRUE /\ ret' = "None" /\ prompted' = FALSE
    /\ arg' = NoArg
    /\ UNCHANGED << config, index, peer, presetFile, fields, taskThread, worker, stopEvent, progress,
                    waitTimers, indicator, stopReq >>

\* the user types into an entry, or picks an option: the Combobox of a
\* SingleOptionEntry then fires <<ComboboxSelected>>, and on_option_selected
\* sets the index
Edit(k, v) ==
    /\ loopState = "loop"
    /\ fields[k] # v
    /\ fields' = [fields EXCEPT ![k] = v]
    /\ index' = IF k \in DOMAIN index
                THEN [index EXCEPT ![k] = SelectionIndex(v)] ELSE index
    /\ op' = "edit" /\ acted' = TRUE /\ ret' = "None" /\ prompted' = FALSE
    /\ arg' = NoArg
    /\ UNCHANGED << config, peer, presetFile, loopState, model, taskThread, worker, stopEvent,
                    progress, waitTimers, indicator, stopReq >>

\* an on_reset whose TextEntry inserts the default without clearing the text
OnReset_Inserts ==
    /\ loopState = "loop"
    /\ fields' = [k \in DOMAIN fields |->
                     IF EntryType[k] = "TextEntry" THEN fields[k] \o Default[k]
                     ELSE ResetData(k)]
    /\ op' = "on_reset" /\ acted' = TRUE /\ ret' = "None" /\ prompted' = FALSE
    /\ arg' = NoArg
    /\ UNCHANGED << config, index, peer, presetFile, loopState, model, taskThread, worker,
                    stopEvent, progress, waitTimers, indicator, stopReq >>

\* FormController.on_reset: entry.reset() for every entry of every page
OnReset ==
    /\ loopState = "loop"
    /\ fields' = [k \in DOMAIN fields |-> ResetData(k)]
    /\ op' = "on_reset" /\ acted' = TRUE /\ ret' = "None" /\ prompted' = FALSE
    /\ arg' = NoArg
    /\ UNCHANGED << config, index, peer, presetFile, loopState, model, taskThread, worker, stopEvent,
                    progress, waitTimers, indicator, stopReq >>

\* on_submit's early-out test with the test dropped
SubmitBusy_Never == FALSE

\* on_submit: if self.taskThread and self.taskThread.is_alive(): return
SubmitBusy == TaskAlive

\* on_submit's early-out reached only after the stop event is cleared
SubmitBusyStopEvent_Cleared == FALSE

\* the stop event after an on_submit that returned early: untouched
SubmitBusyStopEvent == stopEvent

\* an early-out that reports the refusal
SubmitBusyRet_Busy == "busy"

\* on_submit's early-out is a bare return: None
SubmitBusyRet == "None"

\* an on_submit that runs to its end returns nothing: None
SubmitHonouredRet == "None"

\* on_submit: self.update_model()
SubmitModel == SampleModel(fields)

\* on_submit without its taskStopEvent.clear() call
SubmitStopEvent_Kept == stopEvent

\* on_submit: self.taskStopEvent.clear()
SubmitStopEvent == FALSE

\* the id of the thread object the next threading.Thread(...) creates
NextThread == Cardinality(Started) + 1

\* FormController.on_submit
OnSubmit ==
    /\ loopState = "loop"
    /\ op' = "on_submit" /\ prompted' = FALSE
    /\ arg' = NoArg
    /\ IF SubmitBusy
       THEN /\ acted' = FALSE
            /\ ret' = SubmitBusyRet
            /\ stopEvent' = SubmitBusyStopEvent
            /\ UNCHANGED << model, taskThread, worker, stopReq >>
       ELSE /\ NextThread \in Threads
            /\ acted' = TRUE
            /\ ret' = SubmitHonouredRet
            /\ model' = SubmitModel
            /\ stopEvent' = SubmitStopEvent
            /\ taskThread' = NextThread
            /\ wpc' = [wpc EXCEPT ![NextThread] = "start"]
            /\ wp' = [wp EXCEPT ![NextThread] = 0]
            /\ stopReq' = FALSE
    /\ UNCHANGED << config, index, peer, presetFile, loopState, fields, progress, waitTimers, indicator >>

\* a wait_for_task that never reschedules itself
WaitStillAlive_Never == FALSE

\* a wait_for_task that reschedules itself whatever the thread's state
WaitStillAlive_Always == TRUE

\* wait_for_task: if self.taskThread.is_alive()
WaitStillAlive == Alive(taskThread)

\* FormController.on_cancel, with the wait_for_task() call it makes
OnCancel ==
    /\ loopState = "loop"
    /\ op' = "on_cancel" /\ ret' = "None" /\ prompted' = FALSE
    /\ arg' = NoArg
    /\ IF TaskAlive
       THEN /\ waitTimers < MaxCancels
            /\ acted' = TRUE
            /\ stopEvent' = TRUE
            /\ stopReq' = TRUE
            /\ waitTimers' = IF WaitStillAlive THEN waitTimers + 1 ELSE waitTimers
       ELSE /\ acted' = FALSE
            /\ UNCHANGED << stopEvent, stopReq, waitTimers >>
    /\ UNCHANGED << config, index, peer, presetFile, loopState, fields, model, taskThread, worker,
                    progress, indicator >>

\* the timer callback FormController.wait_for_task
WaitForTask ==
    /\ loopState = "loop"
    /\ waitTimers > 0
    /\ op' = "wait_for_task" /\ ret' = "None" /\ prompted' = FALSE
    /\ arg' = NoArg
    /\ acted' = WaitStillAlive
    /\ waitTimers' = IF WaitStillAlive THEN waitTimers ELSE waitTimers - 1
    /\ UNCHANGED << config, index, peer, presetFile, loopState, fields, model, taskThread, worker,
                    stopEvent, progress, indicator, stopReq >>

\* an on_shutdown that skips the prompt only when no thread was ever started
ShutdownIdle_NoThread == taskThread = 0

\* on_shutdown: if not self.taskThread or not self.taskThread.is_alive()
ShutdownIdle == ~TaskAlive

\* an on_shutdown that clears the stop event when the user keeps waiting
ShutdownDeclinedStopEvent_Cleared == FALSE

\* an on_shutdown that sets the stop event before it asks the user
ShutdownDeclinedStopEvent_Set == TRUE

\* the stop event after the user chose to keep waiting: untouched
ShutdownDeclinedStopEvent == stopEvent

\* FormController.on_quit with on_shutdown: keepWaiting is the user's answer
\* to Prompt.warning, asked only while the task runs; acted records
\* on_shutdown's result
OnQuit(keepWaiting) ==
    /\ loopState = "loop"
    /\ op' = "on_quit" /\ ret' = "None" /\ arg' = NoArg
    /\ IF ShutdownIdle
       THEN /\ keepWaiting = FALSE
            /\ prompted' = FALSE
            /\ stopEvent' = TRUE
            /\ stopReq' = TRUE
            /\ acted' = TRUE
            /\ loopState' = "quit"
            /\ UNCHANGED waitTimers
       ELSE IF keepWaiting
       THEN /\ prompted' = TRUE
            /\ acted' = FALSE
            /\ stopEvent' = ShutdownDeclinedStopEvent
            /\ UNCHANGED << stopReq, loopState, waitTimers >>
       ELSE /\ prompted' = TRUE
            /\ stopEvent' = TRUE
            /\ stopReq' = TRUE
            /\ waitTimers' = IF WaitStillAlive THEN waitTimers + 1 ELSE waitTimers
            /\ acted' = TRUE
            /\ loopState' = "quit"
    /\ UNCHANGED << config, index, peer, presetFile, fields, model, taskThread, worker,
                    progress, indicator >>

\* ------------------------------------------------------------ the worker
\* queue.Queue.put: at the tail
QueuePut(q, m) == Append(q, m)

\* set_progress: the message with its serial number (history) is queued
Post(m) ==
    LET tagged == [cmd |-> m.cmd, value |-> m.value, text |-> m.text,
                   n |-> Len(posted) + 1]
    IN /\ queue' = QueuePut(queue, tagged)
       /\ posted' = Append(posted, tagged)

WorkerFrame ==
    /\ op' = "worker" /\ acted' = TRUE /\ ret' = "None" /\ prompted' = FALSE
    /\ arg' = NoArg
    /\ UNCHANGED << config, index, peer, presetFile, loopState, taskThread, stopEvent, waitTimers,
                    indicator, stopReq >>

\* demo/form.py Controller.run_task: self.start_progress()
FormStart(t) ==
    /\ taskKind = "form" /\ wpc[t] = "start"
    /\ Post(StartMsg)
    /\ wpc' = [wpc EXCEPT ![t] = "post"]
    /\ UNCHANGED << wp, fields, model >>
    /\ WorkerFrame

\* run_task: self.set_progress('/processing', p, 'Processing ...')
FormProcessing(t) ==
    /\ taskKind = "form" /\ wpc[t] = "post"
    /\ Post(ProcessingMsg(wp[t]))
    /\ wpc' = [wpc EXCEPT ![t] = "check"]
    /\ UNCHANGED << wp, fields, model >>
    /\ WorkerFrame

\* a loop that ends one step early: range(100)
RangeEnd_Short == NumSteps - 1

\* run_task: for p in range(101)
RangeEnd == NumSteps

\* the last p of the loop, the demo's 100
LastPercent == NumSteps - 1

\* run_task: if self.is_scheduled_to_stop(), else the next p of range()
FormCheck(t) ==
    /\ taskKind = "form" /\ wpc[t] = "check"
    /\ IF stopEvent
       THEN /\ wpc' = [wpc EXCEPT ![t] = "stop_cancelled"]
            /\ UNCHANGED wp
       ELSE IF wp[t] + 1 < RangeEnd
       THEN /\ wpc' = [wpc EXCEPT ![t] = "post"]
            /\ wp' = [wp EXCEPT ![t] = wp[t] + 1]
       ELSE /\ wpc' = [wpc EXCEPT ![t] = "stop_done"]
            /\ UNCHANGED wp
    /\ UNCHANGED << progress, fields, model >>
    /\ WorkerFrame

\* a cancelled run that returns without stop_progress()
FormStopCancelled_Silent(t) ==
    /\ taskKind = "form" /\ wpc[t] = "stop_cancelled"
    /\ wpc' = [wpc EXCEPT ![t] = "dead"]
    /\ wp' = [wp EXCEPT ![t] = 0]
    /\ UNCHANGED << fields, model, progress >>
    /\ WorkerFrame

\* run_task: self.stop_progress(); return   (inside the loop)
FormStopCancelled(t) ==
    /\ taskKind = "form" /\ wpc[t] = "stop_cancelled"
    /\ Post(StopMsg)
    /\ wpc' = [wpc EXCEPT ![t] = "dead"]
    /\ wp' = [wp EXCEPT ![t] = 0]
    /\ UNCHANGED << fields, model >>
    /\ WorkerFrame

\* run_task: self.stop_progress()   (after the loop)
FormStopDone(t) ==
    /\ taskKind = "form" /\ wpc[t] = "stop_done"
    /\ Post(StopMsg)
    /\ wpc' = [wpc EXCEPT ![t] = "get_model"]
    /\ UNCHANGED << wp, fields, model >>
    /\ WorkerFrame

\* run_task: out = vars(self.get_latest_model()), which calls update_model
FormGetModel(t) ==
    /\ taskKind = "form" /\ wpc[t] = "get_model"
    /\ model' = SampleModel(fields)
    /\ wpc' = [wpc EXCEPT ![t] = "export"]
    /\ UNCHANGED << wp, fields, progress >>
    /\ WorkerFrame

\* run_task: self.model['export'] = copy.deepcopy([exported])
FormExport(t) ==
    /\ taskKind = "form" /\ wpc[t] = "export"
    /\ model' = [model EXCEPT !["export"] = << Exported >>]
    /\ wpc' = [wpc EXCEPT ![t] = "update_view"]
    /\ UNCHANGED << wp, fields, progress >>
    /\ WorkerFrame

\* run_task: self.update_view(), i.e. load_preset(self.model); the thread ends
FormUpdateView(t) ==
    /\ taskKind = "form" /\ wpc[t] = "update_view"
    /\ fields' = [k \in Keys |-> SetData(k, model[k])]
    /\ wpc' = [wpc EXCEPT ![t] = "dead"]
    /\ wp' = [wp EXCEPT ![t] = 0]
    /\ UNCHANGED << model, progress >>
    /\ WorkerFrame

\* a thread target that catches the error of run_task and posts "/stop"
BaseRaise_Caught(t) ==
    /\ taskKind = "base" /\ wpc[t] = "start"
    /\ Post(StopMsg)
    /\ wpc' = [wpc EXCEPT ![t] = "dead"]
    /\ UNCHANGED << wp, fields, model >>
    /\ WorkerFrame

\* FormController.run_task: raise NotImplementedError; the thread ends
BaseRaise(t) ==
    /\ taskKind = "base" /\ wpc[t] = "start"
    /\ wpc' = [wpc EXCEPT ![t] = "dead"]
    /\ UNCHANGED << wp, fields, model, progress >>
    /\ WorkerFrame

\* a client-written run_task: self.set_progress(...) with a stage of its choice
CustomPost(t, m) ==
    /\ taskKind = "custom" /\ wpc[t] = "start"
    /\ Post(m)
    /\ wpc' = [wpc EXCEPT ![t] = "posted"]
    /\ UNCHANGED << wp, fields, model >>
    /\ WorkerFrame

\* a client-written run_task returns; the thread ends
CustomReturn(t) ==
    /\ taskKind = "custom" /\ wpc[t] = "posted"
    /\ wpc' = [wpc EXCEPT ![t] = "dead"]
    /\ UNCHANGED << wp, fields, model, progress >>
    /\ WorkerFrame

\* one step of worker thread t
Worker(t) ==
    \/ FormStart(t)
    \/ FormProcessing(t)
    \/ FormCheck(t)
    \/ FormStopCancelled(t)
    \/ FormStopDone(t)
    \/ FormGetModel(t)
    \/ FormExport(t)
    \/ FormUpdateView(t)
    \/ BaseRaise(t)
    \/ \E m \in CustomMsgs : CustomPost(t, m)
    \/ CustomReturn(t)

\* ------------------------------------------------------------ the pollers
\* a get that takes the newest message
QueueGet_Newest(q) == [msg |-> q[Len(q)], rest |-> SubSeq(q, 1, Len(q) - 1)]

\* queue.Queue.get(0) / get_nowait(): the oldest message
QueueGet(q) == [msg |-> Head(q), rest |-> Tail(q)]

\* WaitBar.poll's while loop from queue q, indicator b and histories c, l;
\* end is how the invocation ends: "scheduled" (self.after), "returned",
\* "raised"
RECURSIVE WaitBarLoop(_, _, _, _)
WaitBarLoop(q, b, c, l) ==
    IF q = << >>
    THEN [queue |-> q, bar |-> b, consumed |-> c, log |-> l, end |-> "scheduled"]
    ELSE IF stopEvent
    THEN [queue |-> q, bar |-> b, consumed |-> c, log |-> l, end |-> "returned"]
    ELSE LET g == QueueGet(q)
             cmd == g.msg.cmd
             on == [b EXCEPT !.running = TRUE]
             off == [b EXCEPT !.running = FALSE]
         IN IF cmd = "/start"
            THEN WaitBarLoop(g.rest, on, Append(c, g.msg), Append(l, on))
            ELSE IF cmd = "/stop"
            THEN WaitBarLoop(g.rest, off, Append(c, g.msg), Append(l, off))
            ELSE [queue |-> g.rest, bar |-> b, consumed |-> Append(c, g.msg),
                  log |-> l, end |-> "raised"]

\* a ProgressBar.poll that applies the value of every message, whatever its
\* stage
RECURSIVE ProgressBarLoop_AnyStage(_, _, _, _)
ProgressBarLoop_AnyStage(q, b, c, l) ==
    IF q = << >>
    THEN [queue |-> q, bar |-> b, consumed |-> c, log |-> l, end |-> "scheduled"]
    ELSE LET g == QueueGet(q)
             b2 == [b EXCEPT !.progress = g.msg.value, !.stage = g.msg.text]
         IN ProgressBarLoop_AnyStage(g.rest, b2, Append(c, g.msg), Append(l, b2))

\* ProgressBar.poll's while loop
RECURSIVE ProgressBarLoop(_, _, _, _)
ProgressBarLoop(q, b, c, l) ==
    IF q = << >>
    THEN [queue |-> q, bar |-> b, consumed |-> c, log |-> l, end |-> "scheduled"]
    ELSE LET g == QueueGet(q)
             b1 == IF g.msg.cmd = "/processing"
                   THEN [b EXCEPT !.progress = g.msg.value] ELSE b
             b2 == [b1 EXCEPT !.stage = g.msg.text]
         IN ProgressBarLoop(g.rest, b2, Append(c, g.msg), Append(l, b2))

\* the timer callback WaitBar.poll / ProgressBar.poll
Poll ==
    /\ loopState = "loop"
    /\ pollState = "scheduled"
    /\ LET r == IF barKind = "WaitBar"
                THEN WaitBarLoop(queue, bar, consumed, barLog)
                ELSE ProgressBarLoop(queue, bar, consumed, barLog)
       IN /\ queue' = r.queue
          /\ bar' = r.bar
          /\ consumed' = r.consumed
          /\ barLog' = r.log
          /\ pollState' = r.end
          /\ acted' = (Len(r.consumed) > Len(consumed))
    /\ op' = "poll" /\ ret' = "None" /\ prompted' = FALSE
    /\ arg' = NoArg
    /\ UNCHANGED << config, index, peer, presetFile, loopState, fields, model, taskThread, worker,
                    stopEvent, waitTimers, posted, stopReq >>

Next ==
    \/ MainLoop
    \/ \E k \in Keys : \E v \in EditTexts(k) : Edit(k, v)
    \/ OnReset
    \/ OnSubmit
    \/ OnCancel
    \/ \E keepWaiting \in BOOLEAN : OnQuit(keepWaiting)
    \/ WaitForTask
    \/ Poll
    \/ \E t \in Threads : Worker(t)

Spec == Init /\ [][Next]_vars

\* The cancellation handshake of the demo form: the task body of
\* demo/form.py, which reads the stop flag in every iteration.  The user's
\* edits and reset are left out: they read and write the entries only, none
\* of the state the handshake uses.
LiveInit == Init /\ taskKind = "form"

\* one step of the demo task body in thread t
FormWorker(t) ==
    \/ FormStart(t)
    \/ FormProcessing(t)
    \/ FormCheck(t)
    \/ FormStopCancelled(t)
    \/ FormStopDone(t)
    \/ FormGetModel(t)
    \/ FormExport(t)
    \/ FormUpdateView(t)

LiveNext ==
    \/ MainLoop
    \/ OnSubmit
    \/ OnCancel
    \/ \E keepWaiting \in BOOLEAN : OnQuit(keepWaiting)
    \/ WaitForTask
    \/ Poll
    \/ \E t \in Threads : FormWorker(t)

\* the OS schedules the worker thread, and tkinter fires a due timer while
\* mainloop runs
LiveSpec ==
    /\ LiveInit /\ [][LiveNext]_vars
    /\ \A t \in Threads : WF_vars(FormWorker(t))
    /\ WF_vars(WaitForTask)

\* A client-written task body that starts the progress and then loops
\* without reading the stop flag and without returning.
StuckStart(t) ==
    /\ taskKind = "stuck" /\ wpc[t] = "start"
    /\ Post(StartMsg)
    /\ wpc' = [wpc EXCEPT ![t] = "spin"]
    /\ UNCHANGED << wp, fields, model >>
    /\ WorkerFrame

\* one more iteration of the body's loop
StuckSpin(t) ==
    /\ taskKind = "stuck" /\ wpc[t] = "spin"
    /\ UNCHANGED << worker, fields, model, progress >>
    /\ WorkerFrame

StuckInit ==
    /\ taskKind = "stuck"
    /\ barKind \in BarKinds
    /\ fields = [k \in Keys |-> InitData(k)]
    /\ index = InitIndex(Keys)
    /\ InitTask

StuckNext ==
    \/ MainLoop
    \/ \E k \in Keys : \E v \in EditTexts(k) : Edit(k, v)
    \/ OnSubmit
    \/ OnCancel
    \/ \E keepWaiting \in BOOLEAN : OnQuit(keepWaiting)
    \/ WaitForTask
    \/ Poll
    \/ \E t \in Threads : StuckStart(t)
    \/ \E t \in Threads : StuckSpin(t)

StuckSpec == StuckInit /\ [][StuckNext]_vars

\* ------------------------------------------------------- reset and presets
\* the entries that are off their defaults, in the form, the model or the
\* preset file
Edited ==
    {k \in DOMAIN fields :
        \/ fields[k] # InitData(k)
        \/ k \in DOMAIN model /\ model[k] # GetData(k, InitData(k))
        \/ k \in DOMAIN presetFile /\ presetFile[k] # GetData(k, InitData(k))}

\* the user edits entry k of the form
FormEdit(k, v) ==
    /\ fields[k] # v
    /\ k \in Edited \/ Cardinality(Edited) < MaxEdited
    /\ Edit(k, v)

\* a save_preset that keeps every entry
SavedConfig_All == SampleModel(fields)

\* save_preset: {entry.key: entry.get_data() ... if entry.isPresetable}
SavedConfig == [k \in DOMAIN fields \cap Presetable |-> GetData(k, fields[k])]

\* FormController.save_preset: util.save_json writes the mapping as JSON,
\* which keeps numbers, booleans, texts and lists of texts as they are
SavePreset ==
    /\ loopState = "loop"
    /\ presetFile' = SavedConfig
    /\ op' = "save_preset" /\ acted' = TRUE /\ ret' = "None" /\ prompted' = FALSE
    /\ arg' = NoArg
    /\ UNCHANGED << config, index, peer, loopState, fields, model, taskThread, worker,
                    stopEvent, progress, waitTimers, indicator, stopReq >>

\* load_preset's except KeyError handler formats entry.data.get(); the data
\* of a MultiOptionEntry is a dict, whose get() needs a key: TypeError
LogRaises(k) == EntryType[k] = "MultiOptionEntry"

\* load_preset's loop over the entries of order, from fields flds, with the
\* mapping cfg; end is "None" or the error that left the loop
RECURSIVE LoadLoop(_, _, _)
LoadLoop(order, flds, cfg) ==
    IF order = << >> THEN [fields |-> flds, end |-> "None"]
    ELSE LET k == Head(order)
         IN IF k \notin DOMAIN flds THEN LoadLoop(Tail(order), flds, cfg)
            ELSE IF k \in DOMAIN cfg
            THEN LoadLoop(Tail(order), [flds EXCEPT ![k] = SetData(k, cfg[k])], cfg)
            ELSE IF LogRaises(k) THEN [fields |-> flds, end |-> "TypeError"]
            ELSE LoadLoop(Tail(order), flds, cfg)

\* what a preset file gives once the keys of missing are taken out of it by
\* hand
Without(cfg, missing) == [k \in DOMAIN cfg \ missing |-> cfg[k]]

\* FormController.load_preset of the preset file, from which the keys of
\* missing were taken out
LoadPreset(missing) ==
    /\ loopState = "loop"
    /\ Cardinality(missing) <= MaxMissing
    /\ DOMAIN presetFile # {}
    /\ LET cfg == Without(presetFile, missing)
           r == LoadLoop(EntryOrder, fields, cfg)
       IN /\ \A k \in DOMAIN fields :
                EntryType[k] = "FolderEntry" => Len(r.fields[k]) <= MaxTextLen
          /\ fields' = r.fields
          /\ ret' = r.end
          /\ arg' = cfg
    /\ op' = "load_preset" /\ acted' = TRUE /\ prompted' = FALSE
    /\ UNCHANGED << config, index, peer, presetFile, loopState, model, taskThread, worker,
                    stopEvent, progress, waitTimers, indicator, stopReq >>

\* a form with an entry of every class, and a task body that ends at once
FormInit ==
    /\ taskKind = "base"
    /\ barKind = "ProgressBar"
    /\ fields = [k \in FormKeys |-> InitData(k)]
    /\ index = InitIndex(FormKeys)
    /\ InitTask

\* reset while a task runs or not
ResetNext ==
    \/ MainLoop
    \/ \E k \in FormKeys : \E v \in EditValues(k) : FormEdit(k, v)
    \/ OnReset
    \/ OnSubmit
    \/ OnCancel
    \/ WaitForTask
    \/ \E t \in Threads : BaseRaise(t)

ResetSpec == FormInit /\ [][ResetNext]_vars

\* presets saved, reset and loaded
PresetNext ==
    \/ MainLoop
    \/ \E k \in FormKeys : \E v \in EditValues(k) : FormEdit(k, v)
    \/ OnReset
    \/ SavePreset
    \/ \E missing \in SUBSET Presetable : LoadPreset(missing)

PresetSpec == FormInit /\ [][PresetNext]_vars

\* The progress protocol on its own: a client calls set_progress with the
\* three stages in any order, and the indicator polls.
MsgA == [cmd |-> "/start", value |-> 0, text |-> "a"]
MsgB == [cmd |-> "/processing", value |-> 50, text |-> "b"]
MsgC == [cmd |-> "/stop", value |-> 100, text |-> "c"]

BarMsgs == {MsgA, MsgB, MsgC}

\* FormController.set_progress called by a client
ClientPost(m) ==
    /\ Len(posted) < MaxPosts
    /\ Post(m)
    /\ op' = "set_progress" /\ acted' = TRUE /\ ret' = "None" /\ prompted' = FALSE
    /\ arg' = NoArg
    /\ UNCHANGED << config, index, peer, presetFile, loopState, fields, model, taskThread,
                    worker, stopEvent, waitTimers, indicator, stopReq >>

BarInit == Init /\ taskKind = "custom"

BarNext ==
    \/ MainLoop
    \/ \E m \in BarMsgs : ClientPost(m)
    \/ Poll

BarSpec == BarInit /\ [][BarNext]_vars

\* a queued message without its serial number
Untagged(m) == [cmd |-> m.cmd, value |-> m.value, text |-> m.text]

\* the poller took exactly the messages of ms, in that order
Took(ms) ==
    /\ Len(consumed) = Len(ms)
    /\ \A i \in 1..Len(ms) : Untagged(consumed[i]) = ms[i]

\* ---------------------------------------------------------- two controllers
\* A second FormController of the process, on a form without entries.  Its
\* taskStopEvent is Globals.taskStopEvent, the one stop event of the module,
\* as the first controller's; its task body is client-written and loops
\* until it reads the stop event as set.  peer.pc is the position of its
\* worker, peer.timers its pending wait_for_task callbacks; peer.stopReq and
\* peer.sawStop are history: its own on_cancel asked for a stop since its
\* last submit, and its worker has read the stop event as set.
PeerAlive == peer.pc = "run"

PeerFrame ==
    /\ ret' = "None" /\ prompted' = FALSE /\ arg' = NoArg
    /\ UNCHANGED << config, index, presetFile, loopState, fields, model,
                    taskThread, worker, progress, waitTimers, indicator, stopReq >>

\* on_submit of the second controller
PeerOnSubmit ==
    /\ loopState = "loop"
    /\ op' = "peer_on_submit"
    /\ IF PeerAlive
       THEN /\ acted' = FALSE
            /\ UNCHANGED << peer, stopEvent >>
       ELSE /\ acted' = TRUE
            /\ stopEvent' = FALSE
            /\ peer' = [peer EXCEPT !.pc = "run", !.stopReq = FALSE,
                                    !.sawStop = FALSE]
    /\ PeerFrame

\* on_cancel of the second controller, with the wait_for_task() call it makes
PeerOnCancel ==
    /\ loopState = "loop"
    /\ op' = "peer_on_cancel"
    /\ IF PeerAlive
       THEN /\ peer.timers < MaxCancels
            /\ acted' = TRUE
            /\ stopEvent' = TRUE
            /\ peer' = [peer EXCEPT !.stopReq = TRUE, !.timers = @ + 1]
       ELSE /\ acted' = FALSE
            /\ UNCHANGED << peer, stopEvent >>
    /\ PeerFrame

\* the timer callback wait_for_task of the second controller
PeerWaitForTask ==
    /\ loopState = "loop"
    /\ peer.timers > 0
    /\ op' = "peer_wait_for_task"
    /\ acted' = PeerAlive
    /\ peer' = IF PeerAlive THEN peer ELSE [peer EXCEPT !.timers = @ - 1]
    /\ UNCHANGED stopEvent
    /\ PeerFrame

\* the task body of the second controller: while not
\* self.is_scheduled_to_stop(): ...; then it returns
PeerWorker ==
    /\ PeerAlive
    /\ op' = "peer_worker" /\ acted' = TRUE
    /\ peer' = IF stopEvent
               THEN [peer EXCEPT !.pc = "dead", !.sawStop = TRUE] ELSE peer
    /\ UNCHANGED stopEvent
    /\ PeerFrame

\* two controllers of the base class
TwoInit == Init /\ taskKind = "base" /\ barKind = "ProgressBar"

TwoNext ==
    \/ MainLoop
    \/ OnSubmit
    \/ OnCancel
    \/ \E keepWaiting \in BOOLEAN : OnQuit(keepWaiting)
    \/ WaitForTask
    \/ \E t \in Threads : BaseRaise(t)
    \/ PeerOnSubmit
    \/ PeerOnCancel
    \/ PeerWaitForTask
    \/ PeerWorker

TwoSpec == TwoInit /\ [][TwoNext]_vars

\* ----------------------------------------------------------- typed numbers
\* The Spinbox of an IntEntry or FloatEntry hands the text an edit would give
\* (%P) to _validate_int / _validate_float; the edit goes through only if the
\* validator returns True.
Digits == << "0", "1", "2", "3", "4", "5", "6", "7", "8", "9" >>

IsDigit(c) == \E i \in 1..Len(Digits) : Digits[i] = c

DigitValue(c) == (CHOOSE i \in 1..Len(Digits) : Digits[i] = c) - 1

AllDigits(txt) == \A i \in 1..Len(txt) : IsDigit(txt[i])

\* the text after its sign, if it has one
Unsigned(txt) ==
    IF txt # << >> /\ Head(txt) \in {"-", "+"} THEN Tail(txt) ELSE txt

\* the position of the first "." of a text that has one
DotAt(txt) == CHOOSE i \in 1..Len(txt) : txt[i] = "." /\ \A j \in 1..(i - 1) : txt[j] # "."

IntPart(txt) == IF HasChar(txt, ".") THEN SubSeq(txt, 1, DotAt(txt) - 1) ELSE txt

FracPart(txt) ==
    IF HasChar(txt, ".") THEN SubSeq(txt, DotAt(txt) + 1, Len(txt)) ELSE << >>

\* int(text) does not raise ValueError: a sign and digits
IsIntText(txt) == Unsigned(txt) # << >> /\ AllDigits(Unsigned(txt))

\* util.is_number_text(text): float(text) does not raise ValueError; for the
\* texts of digits, "." and "-": a sign, digits, at most one ".", and a
\* digit on one side of it at least
IsNumberText(txt) ==
    LET u == Unsigned(txt)
    IN /\ AllDigits(IntPart(u)) /\ AllDigits(FracPart(u))
       /\ IntPart(u) # << >> \/ FracPart(u) # << >>

\* util.is_float_text(text): a number text written as a float; the comment
\* at the call says that '-6.' is one
IsFloatText(txt) == HasChar(txt, ".") /\ IsNumberText(txt)

\* the number a string of digits writes
RECURSIVE NatOf(_)
NatOf(ds) ==
    IF ds = << >> THEN 0
    ELSE NatOf(SubSeq(ds, 1, Len(ds) - 1)) * 10 + DigitValue(ds[Len(ds)])

Signed(txt, n) == IF txt # << >> /\ Head(txt) = "-" THEN 0 - n ELSE n

\* int(text) of an int text
IntOf(txt) == Signed(txt, NatOf(Unsigned(txt)))

\* float(text) of a number text with two decimals at most, in hundredths
HundredthsOf(txt) ==
    LET u == Unsigned(txt)
        frac == SubSeq(FracPart(u) \o << "0", "0" >>, 1, 2)
    IN Signed(txt, NatOf(IntPart(u)) * 100 + NatOf(frac))

\* the numeric entries of the form
NumberKeys == {k \in FormKeys : EntryType[k] \in {"IntEntry", "FloatEntry"}}

\* data_type of the validator of entry k
NumberType(k) == IF EntryType[k] = "IntEntry" THEN "int" ELSE "float"

\* minmax of the demo's entries, in the unit of the entry's data: age is
\* (0, inf), height (0.0, 2.0) in hundredths
MinMax ==
    [age |-> [min |-> 0, max |-> 0, hasMax |-> FALSE],
     height |-> [min |-> 0, max |-> 200, hasMax |-> TRUE]]

\* minval <= value <= maxval
InRange(value, rng) == rng.min <= value /\ (rng.hasMax => value <= rng.max)

\* data_type(text): the value in the unit of the entry's data
ValueOf(type, txt) == IF type = "int" THEN IntOf(txt) ELSE HundredthsOf(txt)

EndsWithDot(txt) == txt # << >> /\ txt[Len(txt)] = "."

\* _validate_number(value_after_input, user_input, widget_name, data_type)
ValidateNumber(txt, type, rng) ==
    IF type = "float" /\ EndsWithDot(txt) /\ IsFloatText(txt) THEN TRUE
    ELSE IF ~IsNumberText(txt) \/ txt = << >> THEN FALSE
    ELSE IF type = "int" /\ ~IsIntText(txt) THEN FALSE
    ELSE InRange(ValueOf(type, txt), rng)

\* the characters the user types
TypedChars == {"1", "9", ".", "-"}

\* the texts an edit of a Spinbox can give, with two decimals at most
TypedTexts ==
    {txt \in UNION {[1..n -> TypedChars] : n \in 0..MaxTyped} :
        Len(FracPart(txt)) <= 2}

\* an edit of the Spinbox of entry k that would give the text txt: the
\* validator runs, and the tk variable takes the text if it returns True
TypeNumber(k, txt) ==
    /\ loopState = "loop"
    /\ k \in DOMAIN fields
    /\ LET ok == ValidateNumber(txt, NumberType(k), MinMax[k])
       IN /\ ret' = IF ok THEN "True" ELSE "False"
          /\ acted' = ok
          /\ fields' = IF ok
                       THEN [fields EXCEPT ![k] = ValueOf(NumberType(k), txt)]
                       ELSE fields
    /\ arg' = [key |-> k, text |-> txt]
    /\ op' = "type" /\ prompted' = FALSE
    /\ UNCHANGED << config, index, peer, presetFile, loopState, model, taskThread,
                    worker, stopEvent, progress, waitTimers, indicator, stopReq >>

\* a form with one numeric entry
TypeInit ==
    /\ taskKind = "base"
    /\ barKind = "ProgressBar"
    /\ \E k \in NumberKeys : fields = [e \in {k} |-> InitData(e)]
    /\ index = InitIndex({})
    /\ InitTask

TypeNext ==
    \/ MainLoop
    \/ \E k \in NumberKeys : \E txt \in TypedTexts : TypeNumber(k, txt)

TypeSpec == TypeInit /\ [][TypeNext]_vars

\* the text is empty, is not a number, or is a number outside the range of
\* entry k
BadNumberText(k, txt) ==
    \/ txt = << >>
    \/ ~IsNumberText(txt)
    \/ ~InRange(HundredthsOf(txt),
                IF NumberType(k) = "int"
                THEN [min |-> MinMax[k].min * 100, max |-> MinMax[k].max * 100,
                      hasMax |-> MinMax[k].hasMax]
                ELSE MinMax[k])

\* ------------------------------------------------------------ properties

\* C1: an on_submit made while the worker is alive is not honoured: it starts
\* no thread and leaves taskThread, the model and the stop flag as they were
C1_BusySubmitNoOp ==
    [][(op' = "on_submit" /\ TaskAlive) =>
           /\ acted' = FALSE
           /\ UNCHANGED << taskThread, model, stopEvent, wpc, wp >>]_vars

\* a submit was refused while the worker runs with the stop flag set
C1_Witness ==
    op = "on_submit" /\ ~acted /\ TaskAlive /\ stopEvent

\* C2: at most one worker thread of the controller is alive
C2_AtMostOneWorker == Cardinality(AliveThreads) <= 1

\* a second worker runs after the first one has ended
C2_Witness == wpc[1] = "dead" /\ Alive(2) /\ taskThread = 2

\* C3: an honoured on_submit leaves the model equal to the field values, the
\* stop flag clear and a new worker started; and a worker reads the stop flag
\* as set only if cancel or quit asked for a stop after its submit
C3_SubmitSnapshotsAndClears ==
    /\ [][(op' = "on_submit" /\ acted') =>
              /\ model' = SampleModel(fields)
              /\ fields' = fields
              /\ stopEvent' = FALSE
              /\ taskThread' # 0
              /\ wpc'[taskThread'] = "start"]_vars
    /\ []((TaskAlive /\ stopEvent) => stopReq)

\* a submit was honoured while the timer of an earlier cancel is still pending
C3_Witness ==
    op = "on_submit" /\ acted /\ waitTimers > 0 /\ ~stopEvent /\ taskThread = 2

\* C4 as claimed: a refused on_submit returns something an honoured one does not
C4_BusySignal ==
    (op = "on_submit" /\ ~acted) => ret # SubmitHonouredRet

\* C4 as amended: on_submit returns None whether it was honoured or refused
C4_SubmitReturnsNone ==
    op = "on_submit" => ret = "None"

\* a refused on_submit has returned
C4_Witness == op = "on_submit" /\ ~acted /\ ret = "None"

\* C5 as claimed: when on_cancel has returned, the worker it cancelled is no
\* longer alive
C5_CancelBlocksUntilExit ==
    (op = "on_cancel" /\ acted) => ~TaskAlive

C7_FifoOrder ==
    \A i, j \in 1..Len(consumed) : i < j => consumed[i].n < consumed[j].n

\* the poller has taken two messages and two more wait in the queue
C7_Witness ==
    Len(consumed) >= 2 /\ Len(queue) >= 2 /\ pollState = "scheduled"

\* C8 as claimed, for the invocations that end without an exception: poll has
\* rescheduled itself whenever the event loop runs
C8_PollReschedules ==
    loopState = "loop" => pollState \in {"scheduled", "raised"}

\* C9 as claimed, for the invocations that end without an exception: a poll
\* invocation leaves no message in the queue
C9_PollDrains ==
    (op = "poll" /\ pollState # "raised") => queue = << >>

\* C10 as claimed: taking a message of an unrecognized stage raises
C10_UnknownStageFatal ==
    (\E i \in 1..Len(consumed) : consumed[i].cmd \notin KnownStages)
        => pollState = "raised"

\* C11 as stated: the indicator that took "/start" a, "/processing" 50 b and
\* "/stop" c went through active with label a, 50 with label b, idle with
\* label c
C11_ActiveThenIdle ==
    Took(<< MsgA, MsgB, MsgC >>) =>
        /\ Len(barLog) = 3
        /\ barLog[1].running /\ barLog[1].stage = "a"
        /\ barLog[2].progress = 50 /\ barLog[2].stage = "b"
        /\ ~barLog[3].running /\ barLog[3].stage = "c"

\* C11: a ProgressBar that took the three messages went through exactly
\* three states: label a at the old percentage, 50 with label b, label c
\* still at 50, and never switched its animation; a WaitBar switches its
\* animation on at "/start", raises at "/processing" and shows no label
C11_ThreeStates ==
    /\ (barKind = "ProgressBar" /\ Took(<< MsgA, MsgB, MsgC >>)) =>
           barLog = << [running |-> FALSE, progress |-> 0, stage |-> "a"],
                       [running |-> FALSE, progress |-> 50, stage |-> "b"],
                       [running |-> FALSE, progress |-> 50, stage |-> "c"] >>
    /\ (barKind = "WaitBar" /\ Took(<< MsgA, MsgB >>)) =>
           /\ pollState = "raised"
           /\ barLog = << [running |-> TRUE, progress |-> 0, stage |-> ""] >>
    /\ barKind = "WaitBar" => ~Took(<< MsgA, MsgB, MsgC >>)

C11_Witness ==
    /\ barKind = "ProgressBar" /\ Took(<< MsgA, MsgB, MsgC >>)
    /\ queue = << >> /\ bar.stage = "c" /\ bar.progress = 50

\* C12: once the demo task has run to its end without a cancel and the
\* ProgressBar has drained the queue, the bar shows the last percentage of
\* the loop (the demo's 100), its animation is off and its label is the
\* stop_progress text
C12_CompletedRunShowsLast ==
    ( /\ taskKind = "form" /\ barKind = "ProgressBar"
      /\ taskThread # 0
      /\ wpc[taskThread] \in {"get_model", "export", "update_view", "dead"}
      /\ ~stopReq
      /\ queue = << >> )
    => (bar.progress = LastPercent /\ ~bar.running /\ bar.stage = StopMsg.text)

C12_Witness ==
    /\ taskKind = "form" /\ barKind = "ProgressBar"
    /\ taskThread = 2 /\ wpc[2] = "dead" /\ ~stopReq
    /\ queue = << >> /\ op = "poll" /\ acted
    /\ bar.progress = LastPercent

\* C13: an on_quit made while no worker is alive shows no prompt, has
\* on_shutdown return True and tells the UI loop to quit in that call
C13_IdleQuitIsImmediate ==
    [][(op' = "on_quit" /\ ~TaskAlive)
          => (~prompted' /\ acted' /\ loopState' = "quit")]_vars

C13_Witness ==
    /\ op = "on_quit" /\ ~prompted /\ acted /\ loopState = "quit"
    /\ taskThread # 0 /\ ~TaskAlive

\* C14: an on_quit made while the worker is alive and answered with
\* "keep waiting" changes nothing: stop flag, worker, timers, UI loop
C14_DeclinedQuitChangesNothing ==
    [][(op' = "on_quit" /\ TaskAlive /\ ~acted')
          => /\ prompted'
             /\ UNCHANGED << stopEvent, stopReq, taskThread, wpc, wp,
                             waitTimers, loopState, queue, fields, model >>]_vars

C14_Witness ==
    /\ op = "on_quit" /\ prompted /\ ~acted /\ TaskAlive
    /\ ~stopEvent /\ waitTimers = 0 /\ loopState = "loop"

\* C15 as stated: the UI loop is told to quit only once the worker has
\* exited: right after an on_quit that went through, no worker is alive
C15_QuitOnlyAfterWorkerExit ==
    (op = "on_quit" /\ acted /\ loopState = "quit") => AliveThreads = {}

\* C16: on_reset puts into every entry the data it was constructed with from
\* its default, while a task runs or not, and leaves taskThread, the worker,
\* the stop flag, the timers, the queue and the model as they were
C16_ResetToDefaults ==
    [][op' = "on_reset"
          => /\ fields' = [k \in DOMAIN fields |-> InitData(k)]
             /\ UNCHANGED << taskThread, wpc, wp, stopEvent, waitTimers, queue,
                             model, loopState >>]_vars

C16_Witness ==
    /\ op = "on_reset" /\ TaskAlive /\ stopEvent /\ waitTimers > 0
    /\ model # SampleModel(fields)

\* C17: a second on_reset right after an on_reset leaves the sampled model
\* as the first one made it
C17_ResetIdempotent ==
    [][(op = "on_reset" /\ op' = "on_reset")
          => SampleModel(fields') = SampleModel(fields)]_vars

C17_Witness ==
    /\ op = "on_reset"
    /\ \E k \in DOMAIN presetFile : presetFile[k] # GetData(k, fields[k])

\* C18 as stated: load_preset raises nothing, leaves the entry of every
\* missing key as it was and applies every key the mapping has
C18_MissingKeySkipped ==
    [][op' = "load_preset"
          => /\ ret' = "None"
             /\ \A k \in DOMAIN fields :
                   fields'[k] = IF k \in DOMAIN arg' THEN SetData(k, arg'[k])
                                ELSE fields[k]]_vars

\* C19: the mapping save_preset wrote has exactly the keys of the
\* presetable entries, each with the value get_data gives for it
C19_SavedPresetable ==
    op = "save_preset"
        => /\ DOMAIN presetFile = {k \in DOMAIN fields : k \in Presetable}
           /\ \A k \in DOMAIN presetFile : presetFile[k] = GetData(k, fields[k])

C19_Witness ==
    /\ op = "save_preset"
    /\ fields["export"] = Exported /\ "export" \notin DOMAIN presetFile
    /\ "folders" \in DOMAIN presetFile

\* C20 as stated: loading the whole saved preset onto the form just reset
\* gives every presetable entry the value the file holds for it and leaves
\* the other entries at their defaults
C20_RoundTrip ==
    [][(op = "on_reset" /\ op' = "load_preset" /\ arg' = presetFile)
          => /\ \A k \in DOMAIN presetFile :
                   GetData(k, fields'[k]) = presetFile[k]
             /\ \A k \in DOMAIN fields \ DOMAIN presetFile :
                   fields'[k] = InitData(k)]_vars

\* C21 as stated: once the UI loop runs, the keys of the model are the keys
\* of the entries, and every change of the model replaces it by a sampling
\* of all entries
C21_ModelWholeSampling ==
    /\ [](loopState # "constructed" => DOMAIN model = DOMAIN fields)
    /\ [][model' # model => model' = SampleModel(fields')]_vars

\* C22 as stated: no step of a worker thread writes an entry or the model
C22_WorkerWritesNoField ==
    [][op' = "worker" => UNCHANGED << fields, model >>]_vars

\* C23: the base run_task raises in its thread: the thread ends, no progress
\* message is posted, the stop flag, the entries, the model, the indicator,
\* the timers and the UI loop stay as they were, the controller is idle, and
\* an on_submit made after it is honoured with a new thread
C23_UncaughtErrorIsSilent ==
    /\ [][(taskKind = "base" /\ op' = "worker")
              => /\ UNCHANGED << queue, posted, stopEvent, stopReq, fields, model,
                                 bar, pollState, waitTimers, loopState >>
                 /\ ~TaskAlive']_vars
    /\ [][(taskKind = "base" /\ taskThread # 0 /\ ~TaskAlive
               /\ op' = "on_submit")
              => (acted' /\ taskThread' # taskThread /\ TaskAlive')]_vars

C23_Witness ==
    /\ taskKind = "base" /\ op = "on_submit" /\ acted
    /\ taskThread = 2 /\ wpc[1] = "dead" /\ posted = << >>

\* C24 as stated: the validator rejects every edit that would give an empty
\* text, a text that is not a number or a number outside the range, and the
\* entry never holds a value outside its range
C24_BadTextRejected ==
    /\ [][(op' = "type" /\ BadNumberText(arg'.key, arg'.text))
              => (ret' = "False" /\ fields' = fields)]_vars
    /\ [](\A k \in DOMAIN fields \cap NumberKeys : InRange(fields[k], MinMax[k]))

\* C25: with one controller, a stop flag that cancel or quit has set while
\* the worker is alive stays set as long as that worker is alive: no handler,
\* poller or worker step clears it before the worker has exited
C25_CancelNotLost ==
    /\ []((TaskAlive /\ stopReq) => stopEvent)
    /\ [][(TaskAlive /\ stopEvent /\ TaskAlive') => stopEvent']_vars

C25_Witness ==
    /\ barKind = "ProgressBar" /\ op = "poll" /\ acted
    /\ TaskAlive /\ stopReq /\ stopEvent /\ waitTimers > 0

\* C26: with a task body that never reads the stop flag and never returns,
\* from an on_cancel on the worker is alive in every later state, a
\* wait_for_task timer is pending in every later state, and every later
\* on_submit is refused
C26_CooperativeOnly ==
    [](((taskKind = "stuck" /\ op = "on_cancel" /\ acted)
          => [](/\ TaskAlive
                /\ waitTimers > 0
                /\ (op = "on_submit" => ~acted)
                /\ (op = "wait_for_task" => acted))))

C26_Witness ==
    /\ taskKind = "stuck" /\ op = "wait_for_task" /\ acted
    /\ stopEvent /\ TaskAlive /\ wpc[taskThread] = "spin"

\* C27: when the ProgressBar has just taken the "/stop" of the demo task, it
\* shows the percentage of the "/processing" message taken before it, not
\* the 100 that "/stop" carries, and its label is "Stopped"
C27_StopKeepsPercentage ==
    ( /\ taskKind = "form" /\ barKind = "ProgressBar"
      /\ consumed # << >>
      /\ consumed[Len(consumed)].cmd = "/stop" )
    => /\ Len(consumed) > 1
       /\ consumed[Len(consumed) - 1].cmd = "/processing"
       /\ bar.progress = consumed[Len(consumed) - 1].value
       /\ bar.progress # StopMsg.value
       /\ bar.stage = StopMsg.text

\* the task was cancelled in its first iteration and the bar took its "/stop"
C27_Witness ==
    /\ taskKind = "form" /\ barKind = "ProgressBar"
    /\ stopReq /\ taskThread # 0 /\ wpc[taskThread] = "dead"
    /\ queue = << >> /\ consumed # << >>
    /\ consumed[Len(consumed)].cmd = "/stop"
    /\ bar.progress = 0 /\ bar.stage = "Stopped"

\* C28: the messages the demo task body posts in a run are "/start", then
\* "/processing" with percentages that start at 0 and increase, then one
\* "/stop" and nothing after it, whether the run was cancelled or not; the
\* runs of a controller follow one another, so the posted messages are the
\* runs one after the other
C28_StartThenStop ==
    taskKind = "form" =>
        /\ \A i \in 1..Len(posted) :
              /\ posted[i].cmd = "/start"
                    <=> (i = 1 \/ posted[i - 1].cmd = "/stop")
              /\ posted[i].cmd = "/processing" =>
                    IF posted[i - 1].cmd = "/start" THEN posted[i].value = 0
                    ELSE /\ posted[i - 1].cmd = "/processing"
                         /\ posted[i].value > posted[i - 1].value
              /\ posted[i].cmd = "/stop" => posted[i - 1].cmd = "/processing"
        /\ \A t \in Threads :
              /\ wpc[t] \in {"post", "check", "stop_cancelled", "stop_done"}
                    => (posted # << >> /\ posted[Len(posted)].cmd # "/stop")
              /\ (t = taskThread /\ ~Alive(t))
                    => (posted # << >> /\ posted[Len(posted)].cmd = "/stop")

\* two runs have ended, one of them cancelled in its first iteration
C28_Witness ==
    /\ taskKind = "form" /\ wpc[1] = "dead" /\ wpc[2] = "dead"
    /\ Len(posted) = 2 * NumSteps + 3

\* C29 as stated: the worker of the second controller reads the stop flag
\* as set only if that controller's own on_cancel asked for a stop, and an
\* honoured on_submit of the first controller leaves set a stop flag that
\* the second controller's on_cancel set and its worker has not read yet
C29_NoInterference ==
    /\ [](peer.sawStop => peer.stopReq)
    /\ [][(op' = "on_submit" /\ acted' /\ PeerAlive /\ peer.stopReq /\ stopEvent)
              => stopEvent']_vars

\* C30 as stated: the index of every SingleOptionEntry is the position of
\* the entry's current value among its options (-1 if it is none of them)
C30_IndexFollowsValue ==
    \A k \in DOMAIN index : index[k] = SelectionIndex(fields[k])

====
